---- MODULE Spec2Model ----
(***************************************************************************)
(* FitnessStudioAPI/app.py: the fitness-class store (FitnessClass and      *)
(* Booking tables in one SQLite database), the seeding function add_class, *)
(* and the three request handlers get_classes, book_class, get_bookings.   *)
(* Requests are served concurrently, one handler run per worker; every     *)
(* handler run has its own ORM session.  A step of the model is one        *)
(* interaction of a handler with the database or the clock.                *)
(***************************************************************************)
EXTENDS Integers, Sequences, FiniteSets, TLC

(* ---------------- bounds of the model ---------------- *)
NumWorkers == 2        \* handler runs that can be in flight at once
MaxClassId == 2        \* class ids 1..MaxClassId can be added
MaxSlots == 2          \* total_slots of an added class is in 1..MaxSlots
MaxTime == 2           \* the clock runs over 0..MaxTime
MaxRequests == 2       \* operations served in one run (see nreq)
MaxBurst == 3          \* booking requests served in a run of BurstSpec

(* ---------------- program constants ---------------- *)
\* IST is UTC+05:30; one time unit of the model is half an hour.
ISTOffset == 11

Workers == 1..NumWorkers
ClassIds == 1..MaxClassId
Times == 0..MaxTime

\* Client e-mail addresses; two of them differ in letter case only.
Emails == {"test@example.com", "Test@Example.com", "new.user@example.com"}

\* class_id as it arrives in the JSON body: absent, an integer, or a string.
IntId(i) == [kind |-> "int", int |-> i, str |-> ""]
NoId == [kind |-> "none", int |-> 0, str |-> ""]
StrId(s) == [kind |-> "str", int |-> 0, str |-> s]

\* The JSON bodies of POST /book: the well-formed ones (the class id may be
\* unknown), and bodies with one defect each ("" is an absent or empty field).
GoodPayloads ==
    {[class_id |-> IntId(i), client_name |-> "Test User", client_email |-> e] :
        i \in 1..(MaxClassId + 1), e \in Emails}
BadPayloads ==
    {[class_id |-> NoId, client_name |-> "Test User",
      client_email |-> "test@example.com"],
     [class_id |-> IntId(0), client_name |-> "Test User",
      client_email |-> "test@example.com"],
     [class_id |-> StrId("abc"), client_name |-> "Test User",
      client_email |-> "test@example.com"],
     [class_id |-> IntId(1), client_name |-> "",
      client_email |-> "test@example.com"],
     [class_id |-> IntId(1), client_name |-> "Test User", client_email |-> ""]}
\* A body whose only defect is the syntax of the address.
InvalidEmailPayloads ==
    {[class_id |-> IntId(1), client_name |-> "Test User",
      client_email |-> "invalid-email"]}
Payloads == GoodPayloads \cup BadPayloads \cup InvalidEmailPayloads

(* ---------------- pure helpers ---------------- *)
\* SQL ILIKE / lower(): ASCII case folding of the addresses of the model.
Lower(e) ==
    IF e = "Test@Example.com" THEN "test@example.com" ELSE e

\* IST.localize(naive).astimezone(UTC)
ToUTC(ist) == ist - ISTOffset

\* Python truthiness of the class_id field: None, 0 and "" are falsy.
TruthyId(cid) ==
    CASE cid.kind = "none" -> FALSE
      [] cid.kind = "int" -> cid.int # 0
      [] OTHER -> cid.str # ""

\* int(class_id): <<n>> when the conversion succeeds, <<>> on ValueError.
ParseInt(cid) ==
    CASE cid.kind = "int" -> <<cid.int>>
      [] OTHER -> <<>>

\* The phrases (lower case) a response text contains.
Phrases(text) ==
    CASE text = "Class not found" -> {"not found"}
      [] text = "Cannot book a class that has already started or ended" ->
            {"already started"}
      [] text = "No available slots for this class" -> {"no available slots"}
      [] text = "Booking successful" -> {"booking successful"}
      [] OTHER -> {}

ErrorResp(status, text) ==
    [status |-> status, error |-> text, booking_id |-> 0, available_slots |-> 0]

NoResp == ErrorResp(0, "")

VARIABLES
    classes,     \* table fitness_classes (committed): id -> row
    bookings,    \* table bookings (committed): sequence of rows, insertion order
    txn,         \* the open SQLite write transaction: <<>> or <<its working copy>>
    now,         \* the clock
    pc,          \* pc[w]: where handler run w of book_class stands
    sess,        \* sess[w]: the locals and ORM session of handler run w
    resp,        \* resp[w]: the last response of handler run w
    nreq,        \* operations served so far: POST /book and GET requests
                 \* received, and calls of add_class after the seeding
    nextId,      \* the next fresh booking id (uuid4)
    view         \* the last result of get_classes, get_bookings or add_class

vars == <<classes, bookings, txn, now, pc, sess, resp, nreq, nextId, view>>

\* data: the JSON body (<<>> when there is none); class_id: int(class_id);
\* target_class: the FitnessClass object of the session (<<>> is None);
\* new_booking: the Booking object added to the session (<<>> before that).
NoSess ==
    [data |-> <<>>, class_id |-> 0, target_class |-> <<>>, new_booking |-> <<>>]

\* op: the operation; include_past, email: the query parameters of a GET
\* request; status, error, body: its response; class_id: the class_id
\* argument of add_class; ret: its return value.
NoView ==
    [op |-> "none", include_past |-> FALSE, email |-> "", status |-> 0,
     error |-> "", body |-> <<>>, class_id |-> 0, ret |-> FALSE]

Init ==
    /\ classes = <<>>
    /\ bookings = <<>>
    /\ txn = <<>>
    /\ now = 0
    /\ pc = [w \in Workers |-> "idle"]
    /\ sess = [w \in Workers |-> NoSess]
    /\ resp = [w \in Workers |-> NoResp]
    /\ nreq = 0
    /\ nextId = 1
    /\ view = NoView

(* ---------------- add_class ---------------- *)
NewClass(class_id, name, ist, instructor, total_slots, duration_minutes) ==
    [id |-> class_id, name |-> name, datetime_ist |-> ist,
     datetime_utc |-> ToUTC(ist), instructor |-> instructor,
     total_slots |-> total_slots, available_slots |-> total_slots,
     duration_minutes |-> duration_minutes]

\* Mutant of add_class: no test for an existing id, the row is written anew.
AddClassOverwriting(class_id, ist, total_slots) ==
    /\ IF class_id \in DOMAIN classes
       THEN nreq < MaxRequests /\ nreq' = nreq + 1
       ELSE nreq = 0 /\ nreq' = nreq
    /\ txn = <<>>
    /\ classes' = [i \in DOMAIN classes \cup {class_id} |->
                     IF i = class_id
                     THEN NewClass(class_id, "Yoga", ist, "Priya Sharma",
                                   total_slots, 60)
                     ELSE classes[i]]
    /\ view' = [NoView EXCEPT !.op = "add_class", !.class_id = class_id,
                              !.ret = TRUE]
    /\ UNCHANGED <<bookings, txn, now, pc, sess, resp, nextId>>

\* add_class.  An id that exists: logged, returns False (lines 89-92).  A new
\* id: the class is inserted and committed, returns True; new classes are
\* added by the seeding at start-up (lines 117-133), before the first request
\* is served.
AddClass(class_id, ist, total_slots) ==
    IF class_id \in DOMAIN classes
    THEN /\ nreq < MaxRequests
         /\ nreq' = nreq + 1
         /\ view' = [NoView EXCEPT !.op = "add_class", !.class_id = class_id,
                                   !.ret = FALSE]
         /\ UNCHANGED <<classes, bookings, txn, now, pc, sess, resp, nextId>>
    ELSE /\ nreq = 0
         /\ txn = <<>>
         /\ classes' = [i \in DOMAIN classes \cup {class_id} |->
                          IF i = class_id
                          THEN NewClass(class_id, "Yoga", ist, "Priya Sharma",
                                        total_slots, 60)
                          ELSE classes[i]]
         /\ view' = [NoView EXCEPT !.op = "add_class", !.class_id = class_id,
                                   !.ret = TRUE]
         /\ UNCHANGED <<bookings, txn, now, pc, sess, resp, nreq, nextId>>

\* The clock advances.
Tick ==
    /\ now < MaxTime
    /\ now' = now + 1
    /\ UNCHANGED <<classes, bookings, txn, pc, sess, resp, nreq, nextId, view>>

(* ---------------- book_class ---------------- *)
\* Lines 174-190: the response of the input validation, <<>> when it passes.
InputError(data) ==
    IF data = <<>> THEN <<ErrorResp(400, "No data provided")>>
    ELSE IF ~(/\ TruthyId(data[1].class_id)
              /\ data[1].client_name # ""
              /\ data[1].client_email # "")
         THEN <<ErrorResp(400, "Missing required fields")>>
    ELSE IF ParseInt(data[1].class_id) = <<>>
         THEN <<ErrorResp(400, "class_id must be an integer")>>
    ELSE <<>>

\* A request arrives and its input is validated; no database access yet.
\* limit: the number of operations the run serves.
Serve(w, data, limit) ==
    /\ pc[w] \in {"idle", "done"}
    /\ nreq < limit
    /\ nreq' = nreq + 1
    /\ IF InputError(data) # <<>>
       THEN /\ pc' = [pc EXCEPT ![w] = "done"]
            /\ resp' = [resp EXCEPT ![w] = InputError(data)[1]]
            /\ sess' = [sess EXCEPT ![w] = [NoSess EXCEPT !.data = data]]
       ELSE /\ pc' = [pc EXCEPT ![w] = "query"]
            /\ resp' = [resp EXCEPT ![w] = NoResp]
            /\ sess' = [sess EXCEPT ![w] =
                          [NoSess EXCEPT !.data = data,
                                         !.class_id = ParseInt(data[1].class_id)[1]]]
    /\ UNCHANGED <<classes, bookings, txn, now, nextId, view>>

Receive(w, data) == Serve(w, data, MaxRequests)

\* Mutant of the fetch: the first class, whatever the id.
GetFirst(id) ==
    IF DOMAIN classes # {}
    THEN <<classes[CHOOSE i \in DOMAIN classes : TRUE]>> ELSE <<>>

\* FitnessClass.query.with_for_update().get(id) on the SQLite database of
\* create_app: the SQLite dialect emits a plain SELECT (it has no FOR UPDATE),
\* and a SELECT opens no transaction, so the row is read and nothing is locked.
GetForUpdate(id) ==
    IF id \in DOMAIN classes THEN <<classes[id]>> ELSE <<>>

\* Lines 195-197.
Fetch(w) ==
    /\ pc[w] = "query"
    /\ LET found == GetForUpdate(sess[w].class_id) IN
         IF found = <<>>
         THEN /\ pc' = [pc EXCEPT ![w] = "done"]
              /\ resp' = [resp EXCEPT ![w] = ErrorResp(404, "Class not found")]
              /\ UNCHANGED sess
         ELSE /\ pc' = [pc EXCEPT ![w] = "fetched"]
              /\ sess' = [sess EXCEPT ![w].target_class = found]
              /\ UNCHANGED resp
    /\ UNCHANGED <<classes, bookings, txn, now, nreq, nextId, view>>

\* Line 201.
AlreadyStarted(target, t) == target.datetime_utc <= t

\* Mutants of the capacity check: "< 0" for "<= 0", and the check left out.
NoSlotsBelowZero(target) == target.available_slots < 0
NoSlotsNever(target) == FALSE

\* Line 205.
NoSlots(target) == target.available_slots <= 0

\* Lines 200-218: the checks on the fetched object, then the new Booking and
\* the decrement of the object's available_slots, both still in the session.
Validate(w) ==
    /\ pc[w] = "fetched"
    /\ LET target == sess[w].target_class[1] IN
         IF AlreadyStarted(target, now)
         THEN /\ pc' = [pc EXCEPT ![w] = "done"]
              /\ resp' = [resp EXCEPT ![w] = ErrorResp(400,
                     "Cannot book a class that has already started or ended")]
              /\ UNCHANGED <<sess, nextId>>
         ELSE IF NoSlots(target)
         THEN /\ pc' = [pc EXCEPT ![w] = "done"]
              /\ resp' = [resp EXCEPT ![w] =
                            ErrorResp(409, "No available slots for this class")]
              /\ UNCHANGED <<sess, nextId>>
         ELSE /\ pc' = [pc EXCEPT ![w] = "flush"]
              /\ sess' = [sess EXCEPT
                    ![w].new_booking =
                        <<[id |-> nextId, class_id |-> sess[w].class_id,
                           client_name |-> sess[w].data[1].client_name,
                           client_email |-> sess[w].data[1].client_email]>>,
                    ![w].target_class =
                        <<[target EXCEPT !.available_slots = @ - 1]>>]
              /\ nextId' = nextId + 1
              /\ UNCHANGED resp
    /\ UNCHANGED <<classes, bookings, txn, now, nreq, view>>

\* db.session.commit(), first statement of the flush: BEGIN and
\* UPDATE fitness_classes SET available_slots = <the object's value>.
\* SQLite admits one write transaction at a time.
FlushUpdate(w) ==
    /\ pc[w] = "flush"
    /\ txn = <<>>
    /\ LET target == sess[w].target_class[1] IN
         txn' = <<[owner |-> w,
                   classes |-> [classes EXCEPT ![target.id].available_slots =
                                   target.available_slots],
                   bookings |-> bookings]>>
    /\ pc' = [pc EXCEPT ![w] = "insert"]
    /\ UNCHANGED <<classes, bookings, now, sess, resp, nreq, nextId, view>>

\* Second statement of the flush: INSERT INTO bookings, booking_time by default.
FlushInsert(w) ==
    /\ pc[w] = "insert"
    /\ LET b == sess[w].new_booking[1] IN
         txn' = <<[txn[1] EXCEPT !.bookings = Append(@,
                     [id |-> b.id, class_id |-> b.class_id,
                      client_name |-> b.client_name,
                      client_email |-> b.client_email,
                      booking_time |-> now])]>>
    /\ pc' = [pc EXCEPT ![w] = "commit"]
    /\ UNCHANGED <<classes, bookings, now, sess, resp, nreq, nextId, view>>

\* COMMIT: the working copy becomes the committed state; the session expires
\* its objects.
Commit(w) ==
    /\ pc[w] = "commit"
    /\ classes' = txn[1].classes
    /\ bookings' = txn[1].bookings
    /\ txn' = <<>>
    /\ pc' = [pc EXCEPT ![w] = "respond"]
    /\ UNCHANGED <<now, sess, resp, nreq, nextId, view>>

\* Lines 226-232: the expired target_class is reloaded when the response reads
\* its attributes.
Respond(w) ==
    /\ pc[w] = "respond"
    /\ LET fresh == classes[sess[w].class_id] IN
         /\ sess' = [sess EXCEPT ![w].target_class = <<fresh>>]
         /\ resp' = [resp EXCEPT ![w] =
                [status |-> 201, error |-> "Booking successful",
                 booking_id |-> sess[w].new_booking[1].id,
                 available_slots |-> fresh.available_slots]]
    /\ pc' = [pc EXCEPT ![w] = "done"]
    /\ UNCHANGED <<classes, bookings, txn, now, nreq, nextId, view>>

\* Mutant of the rollback: the inserted Booking row survives it.
RollbackKeepsInsert(committed, working) ==
    [classes |-> committed.classes, bookings |-> working.bookings]

\* db.session.rollback(): the committed state, the working copy dropped.
Rollback(committed, working) == committed

\* Mutant of the exception handler: no rollback, the transaction stays open.
FaultNoRollback(w) ==
    /\ pc[w] \in {"query", "flush", "insert", "commit", "respond"}
    /\ pc' = [pc EXCEPT ![w] = "done"]
    /\ resp' = [resp EXCEPT ![w] = ErrorResp(500,
                   "An error occurred while processing your booking")]
    /\ UNCHANGED <<classes, bookings, txn, now, sess, nreq, nextId, view>>

\* Lines 234-237: a database call inside the try raises (the store fails, or
\* the write lock is not obtained in time); rollback, then 500.
Fault(w) ==
    /\ pc[w] \in {"query", "flush", "insert", "commit", "respond"}
    /\ IF txn # <<>> /\ txn[1].owner = w
       THEN LET after == Rollback([classes |-> classes, bookings |-> bookings],
                                  txn[1])
            IN /\ classes' = after.classes
               /\ bookings' = after.bookings
               /\ txn' = <<>>
       ELSE UNCHANGED <<classes, bookings, txn>>
    /\ pc' = [pc EXCEPT ![w] = "done"]
    /\ resp' = [resp EXCEPT ![w] = ErrorResp(500,
                   "An error occurred while processing your booking")]
    /\ UNCHANGED <<now, sess, nreq, nextId, view>>

(* ---------------- get_classes ---------------- *)
\* Lines 149-158: the dictionary of one class.
ClassView(row) ==
    [id |-> row.id, name |-> row.name, datetime_ist |-> row.datetime_ist,
     datetime_utc |-> row.datetime_utc, instructor |-> row.instructor,
     available_slots |-> row.available_slots, total_slots |-> row.total_slots,
     duration_minutes |-> row.duration_minutes]

\* Line 144: the filter of the query.
Upcoming(t) == {c \in DOMAIN classes : classes[c].datetime_utc > t}

\* .all() of a query without ORDER BY: the rows in primary-key order.
RECURSIVE RowsById(_)
RowsById(ids) ==
    IF ids = {} THEN <<>>
    ELSE LET m == CHOOSE i \in ids : \A j \in ids : i <= j
         IN <<ClassView(classes[m])>> \o RowsById(ids \ {m})

\* Mutant of the listing: it waits while a write transaction is open.
GetClassesWaiting(include_past) ==
    /\ txn = <<>>
    /\ nreq < MaxRequests
    /\ nreq' = nreq + 1
    /\ view' = [NoView EXCEPT !.op = "get_classes",
                              !.include_past = include_past,
                              !.status = 200,
                              !.body = RowsById(Upcoming(now))]
    /\ UNCHANGED <<classes, bookings, txn, now, pc, sess, resp, nextId>>

\* GET /classes?include_past=...: the handler reads no query parameter.
GetClasses(include_past) ==
    /\ nreq < MaxRequests
    /\ nreq' = nreq + 1
    /\ view' = [NoView EXCEPT !.op = "get_classes",
                              !.include_past = include_past,
                              !.status = 200,
                              !.body = RowsById(Upcoming(now))]
    /\ UNCHANGED <<classes, bookings, txn, now, pc, sess, resp, nextId>>

(* ---------------- get_bookings ---------------- *)
\* Booking.client_email.ilike(email): lower(value) LIKE lower(pattern), the
\* pattern not escaped; "_" in it stands for any one character (on the
\* addresses of the model: "new_user..." also matches "new.user...").
ILike(value, pattern) ==
    \/ Lower(value) = Lower(pattern)
    \/ /\ Lower(pattern) = "new_user@example.com"
       /\ Lower(value) = "new.user@example.com"

\* Lines 256-264: the dictionary of one booking, joined with its class.
BookingView(b) ==
    [booking_id |-> b.id, class_id |-> b.class_id,
     class_name |-> classes[b.class_id].name,
     class_datetime_ist |-> classes[b.class_id].datetime_ist,
     client_name |-> b.client_name, client_email |-> b.client_email,
     booking_time |-> b.booking_time]

\* Line 251: the matching rows, in insertion order.
RECURSIVE Matching(_, _)
Matching(rows, email) ==
    IF rows = <<>> THEN <<>>
    ELSE (IF ILike(Head(rows).client_email, email)
          THEN <<BookingView(Head(rows))>> ELSE <<>>)
         \o Matching(Tail(rows), email)

\* GET /bookings?email=...; "" is an absent (or empty) parameter.
GetBookings(email) ==
    /\ nreq < MaxRequests
    /\ nreq' = nreq + 1
    /\ view' = IF email = ""
               THEN [NoView EXCEPT !.op = "get_bookings", !.status = 400,
                        !.error = "Email query parameter is required"]
               ELSE [NoView EXCEPT !.op = "get_bookings", !.email = email,
                        !.status = 200, !.body = Matching(bookings, email)]
    /\ UNCHANGED <<classes, bookings, txn, now, pc, sess, resp, nextId>>

\* The e-mail parameters of GET /bookings.
QueryEmails == {"", "Test@Example.com", "new_user@example.com"}

Next ==
    \/ \E c \in ClassIds, t \in 1..MaxTime, n \in 1..MaxSlots :
          AddClass(c, t + ISTOffset, n)
    \/ Tick
    \/ \E w \in Workers, d \in {<<>>} \cup {<<p>> : p \in Payloads} :
          Receive(w, d)
    \/ \E w \in Workers : Fetch(w)
    \/ \E w \in Workers : Validate(w)
    \/ \E w \in Workers : FlushUpdate(w)
    \/ \E w \in Workers : FlushInsert(w)
    \/ \E w \in Workers : Commit(w)
    \/ \E w \in Workers : Respond(w)
    \/ \E w \in Workers : Fault(w)
    \/ \E ip \in BOOLEAN : GetClasses(ip)
    \/ \E e \in QueryEmails : GetBookings(e)

Spec == Init /\ [][Next]_vars

\* Runs of bookings of one class: class 1 is seeded, starting at MaxTime, and
\* up to MaxBurst booking requests for it or for an unknown class are served.
BurstPayloads ==
    {p \in GoodPayloads :
        /\ p.class_id.int \in {1, MaxClassId + 1}
        /\ p.client_email \in {"test@example.com", "new.user@example.com"}}

BurstNext ==
    \/ \E n \in 1..MaxSlots : AddClass(1, MaxTime + ISTOffset, n)
    \/ Tick
    \/ \E w \in Workers, p \in BurstPayloads : Serve(w, <<p>>, MaxBurst)
    \/ \E w \in Workers : Fetch(w)
    \/ \E w \in Workers : Validate(w)
    \/ \E w \in Workers : FlushUpdate(w)
    \/ \E w \in Workers : FlushInsert(w)
    \/ \E w \in Workers : Commit(w)
    \/ \E w \in Workers : Respond(w)
    \/ \E w \in Workers : Fault(w)

BurstSpec == Init /\ [][BurstNext]_vars

\* A step of handler run w of book_class that is not a fault.
Step(w) ==
    \/ Fetch(w) \/ Validate(w) \/ FlushUpdate(w)
    \/ FlushInsert(w) \/ Commit(w) \/ Respond(w)

\* Every handler run is served by its own thread: it goes on whenever it can.
FairBurstSpec == BurstSpec /\ \A w \in Workers : WF_vars(Step(w))

(* ---------------- definitions used by the properties ---------------- *)
\* The committed Booking rows of class c.
BookingsOf(c) == {i \in 1..Len(bookings) : bookings[i].class_id = c}

\* A committed booking of class c by e-mail e, compared case-insensitively.
HasBooking(c, e) ==
    \E i \in BookingsOf(c) : Lower(bookings[i].client_email) = Lower(e)

\* Handler run w is between its read of the class row and the end of its
\* transaction.
InBooking(w) == pc[w] \in {"fetched", "flush", "insert", "commit"}

\* Handler run w leaves the checks of lines 200-206 in this step.
Validates(w) == pc[w] = "fetched" /\ pc'[w] # "fetched"

(* ---------------- C1 ---------------- *)
\* C1: in every reachable state every class has
\* 0 <= available_slots <= total_slots.
C1_SlotsWithinBounds ==
    \A c \in DOMAIN classes :
        /\ 0 <= classes[c].available_slots
        /\ classes[c].available_slots <= classes[c].total_slots

\* A class booked down to its last slot.
C1_Witness ==
    \E w \in Workers :
        /\ pc[w] = "done"
        /\ resp[w].status = 201
        /\ classes[sess[w].class_id].available_slots = 0
        /\ BookingsOf(sess[w].class_id) # {}

(* ---------------- C2 ---------------- *)
\* C2: in every committed state, for every class, available_slots equals
\* total_slots minus the number of its Booking rows, and it has at most
\* total_slots Booking rows.
C2_SlotsMatchBookings ==
    \A c \in DOMAIN classes :
        /\ classes[c].available_slots =
              classes[c].total_slots - Cardinality(BookingsOf(c))
        /\ Cardinality(BookingsOf(c)) <= classes[c].total_slots

(* ---------------- C3 ---------------- *)
\* C3: at most one Booking exists per class and e-mail address, addresses
\* compared case-insensitively.
C3_OneBookingPerClient ==
    \A i, j \in 1..Len(bookings) :
        (/\ bookings[i].class_id = bookings[j].class_id
         /\ Lower(bookings[i].client_email) = Lower(bookings[j].client_email))
        => i = j

(* ---------------- C4 ---------------- *)
\* The requests of all handler runs were the only ones, all are answered, all
\* were well-formed bookings of class c with pairwise different addresses, and
\* each was answered by success or by a conflict.
ParallelBatch(c) ==
    /\ nreq = NumWorkers
    /\ \A w \in Workers :
          /\ pc[w] = "done"
          /\ InputError(sess[w].data) = <<>>
          /\ sess[w].class_id = c
          /\ resp[w].status \in {201, 409}
    /\ \A v, w \in Workers :
          Lower(sess[v].data[1].client_email) = Lower(sess[w].data[1].client_email)
          => v = w

\* C4: N parallel bookings with distinct addresses of a class with K < N
\* slots: K succeed, N - K fail with "no available slots", the class ends
\* with available_slots = 0 and K Booking rows.
C4_ParallelBookings ==
    \A c \in DOMAIN classes :
        (ParallelBatch(c) /\ classes[c].total_slots < NumWorkers) =>
            /\ Cardinality({w \in Workers : resp[w].status = 201}) =
                  classes[c].total_slots
            /\ Cardinality({w \in Workers :
                                /\ resp[w].status = 409
                                /\ "no available slots" \in Phrases(resp[w].error)})
                  = NumWorkers - classes[c].total_slots
            /\ classes[c].available_slots = 0
            /\ Cardinality(BookingsOf(c)) = classes[c].total_slots

(* ---------------- C5 ---------------- *)
\* C5: never are two booking requests of the same class both between their
\* read of the class row and the end of their transaction.
C5_SerializedPerClass ==
    \A v, w \in Workers :
        (InBooking(v) /\ InBooking(w) /\ sess[v].class_id = sess[w].class_id)
        => v = w

(* ---------------- C6 ---------------- *)
\* C6: a booking request for a class whose start is at or before the current
\* instant is answered 409 with a text containing "already started", whatever
\* its available_slots, and adds no booking.
C6_StartedClassConflict ==
    [][\A w \in Workers :
         (Validates(w) /\ sess[w].target_class[1].datetime_utc <= now) =>
            /\ pc'[w] = "done"
            /\ resp'[w].status = 409
            /\ "already started" \in Phrases(resp'[w].error)
            /\ bookings' = bookings
            /\ txn' = txn]_vars

C8_ErrorPrecedence ==
    [][\A w \in Workers :
         /\ (/\ pc[w] = "query" /\ pc'[w] # "query" /\ resp'[w].status # 500
              /\ sess[w].class_id \notin DOMAIN classes) =>
                (resp'[w].status = 404 /\ "not found" \in Phrases(resp'[w].error))
         /\ Validates(w) =>
              LET target == sess[w].target_class[1] IN
                IF target.datetime_utc <= now
                THEN "already started" \in Phrases(resp'[w].error)
                ELSE IF HasBooking(sess[w].class_id, sess[w].data[1].client_email)
                THEN /\ resp'[w].status = 409
                     /\ "already booked" \in Phrases(resp'[w].error)
                ELSE target.available_slots <= 0 =>
                     /\ resp'[w].status = 409
                     /\ "no available slots" \in Phrases(resp'[w].error)]_vars

(* ---------------- C9 ---------------- *)
\* C9: a successful booking adds exactly one Booking for its class and
\* e-mail (which had none), lowers the available_slots of that class by exactly 1, leaves the
\* other classes and the existing bookings unchanged, and is answered 201
\* with the available_slots after the decrement.
C9_SuccessfulBooking ==
    [][\A w \in Workers :
         /\ (/\ pc[w] = "commit" /\ pc'[w] = "respond"
              /\ ~HasBooking(sess[w].class_id, sess[w].data[1].client_email)) =>
              /\ Len(bookings') = Len(bookings) + 1
              /\ SubSeq(bookings', 1, Len(bookings)) = bookings
              /\ bookings'[Len(bookings')].class_id = sess[w].class_id
              /\ bookings'[Len(bookings')].client_email =
                    sess[w].data[1].client_email
              /\ classes' = [classes EXCEPT ![sess[w].class_id].available_slots =
                                @ - 1]
         /\ (pc[w] = "respond" /\ resp'[w].status = 201) =>
              resp'[w].available_slots =
                  sess[w].target_class[1].available_slots]_vars

(* ---------------- C10 ---------------- *)
\* C10: when the commit of a booking fails (at the UPDATE, at the INSERT or
\* at the COMMIT), the request is answered 500, no write transaction stays
\* open, and the committed classes and bookings are what they were: no
\* Booking row without its decrement and no decrement without its row.
C10_FailedCommitNoEffect ==
    [][\A w \in Workers :
         (pc[w] \in {"flush", "insert", "commit"} /\ pc'[w] = "done") =>
            /\ resp'[w].status = 500
            /\ classes' = classes
            /\ bookings' = bookings
            /\ (txn # <<>> /\ txn[1].owner = w) => txn' = <<>>]_vars

\* A booking whose commit failed after its row was inserted in the
\* transaction: answered 500, and the row is not in the table.
C10_Witness ==
    \E w \in Workers :
        /\ pc[w] = "done"
        /\ resp[w].status = 500
        /\ sess[w].new_booking # <<>>
        /\ \A i \in 1..Len(bookings) : bookings[i].id # sess[w].new_booking[1].id
        /\ txn = <<>>

(* ---------------- C11 ---------------- *)
\* The body lacks class_id, client_name or client_email, or its class_id is
\* no integer, or its client_email is no syntactically valid address.
Malformed(d) ==
    \/ d.class_id.kind = "none"
    \/ d.class_id.kind = "str"
    \/ d.client_name = ""
    \/ d.client_email = ""
    \/ d.client_email = "invalid-email"

\* C11: a booking request with a missing class_id, client_name or
\* client_email, a non-integer class_id or a syntactically invalid
\* client_email is answered 400 before any transaction: it never leaves the
\* input validation, fetches no class and creates no Booking object.
C11_MalformedRejected ==
    \A w \in Workers :
        (sess[w].data # <<>> /\ Malformed(sess[w].data[1])) =>
            /\ pc[w] = "done"
            /\ resp[w].status = 400
            /\ sess[w].target_class = <<>>
            /\ sess[w].new_booking = <<>>

(* ---------------- C12 ---------------- *)
\* A handler run that has answered (or has not started) owns no open write
\* transaction; the open write transaction belongs to a handler run that is
\* inside its commit.
NoTransactionLeftOpen ==
    /\ \A w \in Workers :
          pc[w] \in {"idle", "done"} => (txn = <<>> \/ txn[1].owner # w)
    /\ txn # <<>> => pc[txn[1].owner] \in {"insert", "commit"}

Serves(op) == nreq' # nreq /\ pc' = pc /\ view' # view /\ view'.op = op

\* C13: GET /classes without include_past returns exactly the classes that
\* start strictly after now, with include_past=true all classes; the result
\* is ordered ascending by start time and every record reports
\* is_available = (available_slots > 0).
C13_ListClasses ==
    [][Serves("get_classes") =>
         LET body == view'.body
             expected == IF view'.include_past THEN DOMAIN classes
                         ELSE {c \in DOMAIN classes :
                                 classes[c].datetime_utc > now}
         IN /\ view'.status = 200
            /\ {body[i].id : i \in 1..Len(body)} = expected
            /\ Len(body) = Cardinality(expected)
            /\ \A i, j \in 1..Len(body) :
                  i < j => body[i].datetime_utc <= body[j].datetime_utc
            /\ \A i \in 1..Len(body) :
                  /\ "is_available" \in DOMAIN body[i]
                  /\ body[i].is_available = (body[i].available_slots > 0)]_vars

(* ---------------- C14 ---------------- *)
\* C14: GET /bookings without email is answered 400; with an email it is
\* answered 200 with exactly the bookings whose client_email equals the
\* email case-insensitively, an empty list when there are none.
C14_ListBookings ==
    [][Serves("get_bookings") =>
         IF view'.email = ""
         THEN view'.status = 400
         ELSE LET body == view'.body
                  expected == {i \in 1..Len(bookings) :
                                 Lower(bookings[i].client_email) =
                                     Lower(view'.email)}
              IN /\ view'.status = 200
                 /\ {body[i].booking_id : i \in 1..Len(body)} =
                       {bookings[i].id : i \in expected}
                 /\ Len(body) = Cardinality(expected)]_vars

(* ---------------- C15 ---------------- *)
\* C15: booking requests for different class ids never block each other:
\* while a request for one class is inside its transaction, not yet
\* committed, a request for another class that is ready to write can do so.
C15_NoBlockingAcrossClasses ==
    \A v, w \in Workers :
        (/\ v # w
         /\ pc[v] = "flush"
         /\ pc[w] \in {"insert", "commit"}
         /\ sess[v].class_id # sess[w].class_id)
        => ENABLED FlushUpdate(v)

(* ---------------- C16 ---------------- *)
\* C16: every Booking references a class that exists; a booking request for
\* an unknown class id is answered 404 "not found" and creates no booking.
C16_BookingsReferenceClasses ==
    /\ \A i \in 1..Len(bookings) : bookings[i].class_id \in DOMAIN classes
    /\ \A w \in Workers :
          (/\ pc[w] = "done"
           /\ InputError(sess[w].data) = <<>>
           /\ sess[w].class_id \notin DOMAIN classes
           /\ resp[w].status # 500) =>
              /\ resp[w].status = 404
              /\ "not found" \in Phrases(resp[w].error)
              /\ sess[w].new_booking = <<>>

\* A request for an unknown class has been answered 404 in a store that
\* has classes and bookings.
C16_Witness ==
    \E w \in Workers :
        /\ pc[w] = "done"
        /\ resp[w].status = 404
        /\ sess[w].class_id \notin DOMAIN classes
        /\ bookings # <<>>
        /\ \A i \in 1..Len(bookings) : bookings[i].class_id # sess[w].class_id

(* ---------------- C17 ---------------- *)
\* C17: in every step the Booking rows are kept as they are (rows are only
\* appended), no class is removed, and an existing class changes in
\* available_slots only, which never increases.
C17_AppendOnly ==
    [][/\ Len(bookings') >= Len(bookings)
       /\ SubSeq(bookings', 1, Len(bookings)) = bookings
       /\ \A c \in DOMAIN classes :
             /\ c \in DOMAIN classes'
             /\ classes'[c] = [classes[c] EXCEPT !.available_slots =
                                   classes'[c].available_slots]
             /\ classes'[c].available_slots <= classes[c].available_slots]_vars

(* ---------------- C18 ---------------- *)
\* Both listings can be served now, whatever the bookings in flight do.
ListingsCanRun ==
    nreq < MaxRequests =>
        /\ \A ip \in BOOLEAN : ENABLED GetClasses(ip)
        /\ \A e \in QueryEmails : ENABLED GetBookings(e)

\* C18: the two listings leave every class and booking record unchanged,
\* take no lock (the write transaction and every booking in flight are
\* left as they are), and can be served at any point of a booking.
C18_ListingsReadOnly ==
    /\ []ListingsCanRun
    /\ [][(Serves("get_classes") \/ Serves("get_bookings")) =>
            UNCHANGED <<classes, bookings, txn, pc, sess, resp>>]_vars

\* A listing was served in a run where a booking holds the open write
\* transaction.
C18_Witness ==
    /\ view.op \in {"get_classes", "get_bookings"}
    /\ view.status = 200
    /\ \E w \in Workers : pc[w] \in {"insert", "commit"} /\ txn # <<>>

(* ---------------- C19 ---------------- *)
\* This step is a call of add_class: it records the call, or adds a class.
AddsClass ==
    /\ view'.op = "add_class"
    /\ pc' = pc
    /\ view' # view \/ classes' # classes

====
